---- MODULE Spec2Model ----
(***************************************************************************)
(* A model of the two primitives of SNUCP/elsa that src/ holds:            *)
(*   src/src/matrix.rs   SparseMatrix, a CSR matrix over residues mod q    *)
(*   src/src/encoder.rs  Encoder, base-b digit encoding into ring elements *)
(* Vectors and CSR arrays are functions on 0..len-1, as the source indexes *)
(* them.                                                                   *)
(***************************************************************************)
EXTENDS Integers, Sequences, FiniteSets, TLC

\* SparseMatrix and its caller
VARIABLES mat, ctor, vout, log, panicked, wrapped
\* Encoder and its caller
VARIABLES params, msg, pout, dvout, err, pc, spill, rounded

mvars == <<mat, ctor, vout, log, panicked, wrapped>>

evars == <<params, msg, pout, dvout, err, pc, spill, rounded>>

vars == <<mvars, evars>>

-----------------------------------------------------------------------------
(* Bounds of the model. *)

\* largest matrix dimension n
MaxN == 2
\* largest number of stored CSR entries
MaxNnz == 2
\* largest modulus q
MaxQ == 5
\* largest stored matrix value and largest entry of an unconstrained vector
MaxVal == 2
\* largest value of the working unsigned integer: U256::MAX in the source,
\* scaled down so that products of two drawn values can exceed it
UMax == 7
\* largest number of message slots m and of digits per slot kap
MaxM == 2
MaxKap == 2
\* largest digit base b, plaintext modulus p and ring modulus q
MaxB == 3
MaxP == 5
MaxRingQ == 7
\* largest integer offset the coset sampler adds to its centre
MaxOff == 1
\* largest number of ring elements in a chunk and longest chunked buffer
MaxChunks == 2
MaxBuf == 3

-----------------------------------------------------------------------------
(* Vectors. *)

Vec(len, S) == [0..(len - 1) -> S]

Zeros(len) == [i \in 0..(len - 1) |-> 0]

InRange(f, q) == \A i \in DOMAIN f : f[i] >= 0 /\ f[i] < q

-----------------------------------------------------------------------------
(* U256 arithmetic of the uint crate: +, - and * panic when the result     *)
(* does not fit the type; they never wrap.                                 *)

Fits(x) == x >= 0 /\ x <= UMax

\* `(acc + a * b) % q` with the product and the sum formed in the working
\* integer; on a panic nothing is written and val is the old accumulator
mul_add_mod(acc, a, b, q) ==
    IF Fits(a * b) /\ Fits(acc + a * b)
    THEN [ok |-> TRUE, val |-> (acc + a * b) % q]
    ELSE [ok |-> FALSE, val |-> acc]

\* `(a * b) % q`
mul_mod(a, b, q) ==
    IF Fits(a * b)
    THEN [ok |-> TRUE, val |-> (a * b) % q]
    ELSE [ok |-> FALSE, val |-> 0]

\* `if x >= tmp { x - tmp } else { x + q - tmp }`, evaluated left to right
mod_sub_wrapping(x, tmp, q) ==
    [ok |-> TRUE, val |-> (x - tmp) % (UMax + 1), wrapped |-> x < tmp]

mod_sub(x, tmp, q) ==
    IF x >= tmp
    THEN [ok |-> TRUE, val |-> x - tmp, wrapped |-> FALSE]
    ELSE IF Fits(x + q)
         THEN [ok |-> TRUE, val |-> x + q - tmp, wrapped |-> TRUE]
         ELSE [ok |-> FALSE, val |-> x, wrapped |-> TRUE]

-----------------------------------------------------------------------------
(* SparseMatrix. *)

new(n, q) ==
    [n |-> n, q |-> q, row_ptr |-> [i \in 0..n |-> 0],
     col_idx |-> Zeros(0), values |-> Zeros(0)]

new_identity_shifted(n, q) ==
    [n |-> n, q |-> q, row_ptr |-> [i \in 0..n |-> i],
     col_idx |-> [i \in 0..(n - 1) |-> (i + 1) % n],
     values |-> [i \in 0..(n - 1) |-> 1]]

new_identity(n, q) ==
    [n |-> n, q |-> q, row_ptr |-> [i \in 0..n |-> i],
     col_idx |-> [i \in 0..(n - 1) |-> i],
     values |-> [i \in 0..(n - 1) |-> 1]]

RECURSIVE dense_row(_, _, _, _)
\* the scatter `m[i][col_idx[j]] = values[j]` over j in row_ptr[i]..row_ptr[i+1]
dense_row(M, j, hi, row) ==
    IF j >= hi THEN row
    ELSE dense_row(M, j + 1, hi, [row EXCEPT ![M.col_idx[j]] = M.values[j]])

to_dense(M) ==
    [i \in 0..(M.n - 1) |->
        dense_row(M, M.row_ptr[i], M.row_ptr[i + 1], Zeros(M.n))]

RECURSIVE row_acc(_, _, _, _, _)
\* the inner loop of the forward products from accumulator acc
row_acc(M, v, j, hi, acc) ==
    IF j >= hi THEN [ok |-> TRUE, val |-> acc]
    ELSE LET s == mul_add_mod(acc, M.values[j], v[M.col_idx[j]], M.q)
         IN  IF s.ok THEN row_acc(M, v, j + 1, hi, s.val) ELSE s

RECURSIVE mul_vec_assign_from(_, _, _, _)
mul_vec_assign_from(M, v, i, out) ==
    IF i >= M.n THEN [ok |-> TRUE, vout |-> out, wrapped |-> FALSE]
    ELSE LET r == row_acc(M, v, M.row_ptr[i], M.row_ptr[i + 1], 0)
             w == [out EXCEPT ![i] = r.val]
         IN  IF r.ok THEN mul_vec_assign_from(M, v, i + 1, w)
             ELSE [ok |-> FALSE, vout |-> w, wrapped |-> FALSE]

mul_vec_assign(M, v, out) == mul_vec_assign_from(M, v, 0, out)

mul_vec(M, v) == mul_vec_assign(M, v, Zeros(M.n))

RECURSIVE mul_vec_add_assign_from(_, _, _, _)
mul_vec_add_assign_from(M, v, i, out) ==
    IF i >= M.n THEN [ok |-> TRUE, vout |-> out, wrapped |-> FALSE]
    ELSE LET r == row_acc(M, v, M.row_ptr[i], M.row_ptr[i + 1], out[i])
             w == [out EXCEPT ![i] = r.val]
         IN  IF r.ok THEN mul_vec_add_assign_from(M, v, i + 1, w)
             ELSE [ok |-> FALSE, vout |-> w, wrapped |-> FALSE]

mul_vec_add_assign(M, v, out) == mul_vec_add_assign_from(M, v, 0, out)

RECURSIVE mul_vec_sub_assign_from(_, _, _, _, _)
mul_vec_sub_assign_from(M, v, i, out, wr) ==
    IF i >= M.n THEN [ok |-> TRUE, vout |-> out, wrapped |-> wr]
    ELSE LET tmp == row_acc(M, v, M.row_ptr[i], M.row_ptr[i + 1], 0)
             d   == mod_sub(out[i], tmp.val, M.q)
         IN  IF ~tmp.ok THEN [ok |-> FALSE, vout |-> out, wrapped |-> wr]
             ELSE IF ~d.ok THEN [ok |-> FALSE, vout |-> out, wrapped |-> wr]
             ELSE mul_vec_sub_assign_from(M, v, i + 1,
                      [out EXCEPT ![i] = d.val], wr \/ d.wrapped)

mul_vec_sub_assign(M, v, out) == mul_vec_sub_assign_from(M, v, 0, out, FALSE)

RECURSIVE t_add_entries(_, _, _, _, _, _)
\* the inner loop of the transposed products: scatter into out[col_idx[j]]
t_add_entries(M, v, i, j, hi, out) ==
    IF j >= hi THEN [ok |-> TRUE, vout |-> out]
    ELSE LET c == M.col_idx[j]
             s == mul_add_mod(out[c], M.values[j], v[i], M.q)
         IN  IF s.ok
             THEN t_add_entries(M, v, i, j + 1, hi, [out EXCEPT ![c] = s.val])
             ELSE [ok |-> FALSE, vout |-> out]

RECURSIVE transpose_mul_vec_add_assign_from(_, _, _, _)
transpose_mul_vec_add_assign_from(M, v, i, out) ==
    IF i >= M.n THEN [ok |-> TRUE, vout |-> out, wrapped |-> FALSE]
    ELSE LET r == t_add_entries(M, v, i, M.row_ptr[i], M.row_ptr[i + 1], out)
         IN  IF r.ok THEN transpose_mul_vec_add_assign_from(M, v, i + 1, r.vout)
             ELSE [ok |-> FALSE, vout |-> r.vout, wrapped |-> FALSE]

transpose_mul_vec_add_assign(M, v, out) ==
    transpose_mul_vec_add_assign_from(M, v, 0, out)

\* the first loop zeroes vout[0..n), the second is the accumulating loop
transpose_mul_vec_assign(M, v, out) ==
    transpose_mul_vec_add_assign_from(M, v, 0,
        [i \in DOMAIN out |-> IF i < M.n THEN 0 ELSE out[i]])

transpose_mul_vec(M, v) == transpose_mul_vec_assign(M, v, Zeros(M.n))

RECURSIVE t_sub_entries(_, _, _, _, _, _, _)
t_sub_entries(M, v, i, j, hi, out, wr) ==
    IF j >= hi THEN [ok |-> TRUE, vout |-> out, wrapped |-> wr]
    ELSE LET c   == M.col_idx[j]
             tmp == mul_mod(M.values[j], v[i], M.q)
             d   == mod_sub(out[c], tmp.val, M.q)
         IN  IF ~tmp.ok THEN [ok |-> FALSE, vout |-> out, wrapped |-> wr]
             ELSE IF ~d.ok THEN [ok |-> FALSE, vout |-> out, wrapped |-> wr]
             ELSE t_sub_entries(M, v, i, j + 1, hi,
                      [out EXCEPT ![c] = d.val], wr \/ d.wrapped)

RECURSIVE transpose_mul_vec_sub_assign_from(_, _, _, _, _)
transpose_mul_vec_sub_assign_from(M, v, i, out, wr) ==
    IF i >= M.n THEN [ok |-> TRUE, vout |-> out, wrapped |-> wr]
    ELSE LET r == t_sub_entries(M, v, i, M.row_ptr[i], M.row_ptr[i + 1], out, wr)
         IN  IF r.ok
             THEN transpose_mul_vec_sub_assign_from(M, v, i + 1, r.vout, r.wrapped)
             ELSE r

transpose_mul_vec_sub_assign(M, v, out) ==
    transpose_mul_vec_sub_assign_from(M, v, 0, out, FALSE)

-----------------------------------------------------------------------------
(* The ring engine and the sampler, as the encoder uses them.  A ring      *)
(* element in evaluation form is held as the coefficient vector in [0,q)   *)
(* that it is the transform of.                                            *)

new_poly(P) == [coeffs |-> Zeros(P.n), is_ntt |-> FALSE]

\* the forward transform: a bijection on vectors of residues mod q
ntt(P, poly) ==
    [coeffs |-> [i \in DOMAIN poly.coeffs |-> poly.coeffs[i] % P.q], is_ntt |-> TRUE]

\* the coefficients, each as its representative in (-q/2, q/2]
to_balanced(P, poly) ==
    [i \in DOMAIN poly.coeffs |->
        LET c == poly.coeffs[i] % P.q
        IN  IF 2 * c > P.q THEN c - P.q ELSE c]

\* sample_coset(center, sigma): a value of the coset center + Z, here the
\* centre plus the integer offset z
sample_coset(center, z) == center + z

-----------------------------------------------------------------------------
(* Encoder.  Parameters P = [n, m, kap, b, p, q].                          *)

\* 2^64 in the source (the wrap of `as u64`), scaled down
LaneMod == 64

\* `pout.coeffs[0][idx] = val`: an index past the end panics; spill keeps
\* the positions written for slots i >= m
write(c, idx, val, i, m) ==
    IF idx >= Cardinality(DOMAIN c.coeffs)
    THEN [c EXCEPT !.ok = FALSE]
    ELSE [coeffs |-> [c.coeffs EXCEPT ![idx] = val],
          ok |-> TRUE,
          spill |-> IF i >= m THEN c.spill \cup {idx} ELSE c.spill]

top_digit_capped(amod, b) == amod % b

\* the most significant digit is stored as it is, not reduced mod b
top_digit(amod, b) == amod

RECURSIVE encode_digits(_, _, _, _, _)
\* the loop `for j in 0..kap - 1` of slot i, then the write of the top digit
encode_digits(P, i, j, amod, c) ==
    IF j >= P.kap - 1
    THEN write(c, i + P.m * (P.kap - 1), top_digit(amod, P.b), i, P.m)
    ELSE LET w == write(c, i + j * P.m, amod % P.b, i, P.m)
         IN  IF w.ok THEN encode_digits(P, i, j + 1, amod \div P.b, w) ELSE w

RECURSIVE encode_slots(_, _, _, _)
\* the loop `for (i, a) in v.iter().enumerate()`
encode_slots(P, v, i, c) ==
    IF i >= Cardinality(DOMAIN v) \/ ~c.ok THEN c
    ELSE encode_slots(P, v, i + 1, encode_digits(P, i, 0, v[i] % P.p, c))

Cleared(P) == [coeffs |-> Zeros(P.n), ok |-> TRUE, spill |-> {}]

encode_assign(P, v, poly) ==
    LET c == encode_slots(P, v, 0, Cleared(P))
    IN  IF c.ok
        THEN [pout |-> ntt(P, [coeffs |-> c.coeffs, is_ntt |-> FALSE]),
              err |-> "none", spill |-> c.spill, rounded |-> Zeros(0)]
        ELSE [pout |-> [coeffs |-> c.coeffs, is_ntt |-> poly.is_ntt],
              err |-> "index out of bounds", spill |-> c.spill, rounded |-> Zeros(0)]

\* pout += p * c X^d in Z[X]/(X^n + 1)
monomial_mul_and_add_assign(p, c, d, out) ==
    LET n == Cardinality(DOMAIN p)
    IN  [k \in DOMAIN out |->
            IF k >= d THEN out[k] + c * p[k - d] ELSE out[k] - c * p[k - d + n]]

RECURSIVE project(_, _, _, _, _)
\* the loop `for i in 1..=kap` that multiplies by P^-1.  The f64 buffers
\* buff1 and pinv are held times p, which makes them integers: pinv starts
\* at -1 for -1/p
project(P, buff0, i, pinv, buff1) ==
    IF i > P.kap THEN buff1
    ELSE project(P, buff0, i + 1, pinv * P.b,
             monomial_mul_and_add_assign(buff0, pinv, P.n - i * P.m, buff1))

\* (X^m - b) * buff1, written into buff0 (still times p)
unproject(P, buff1) ==
    [k \in DOMAIN buff1 |->
        IF k >= P.m
        THEN buff1[k - P.m] - P.b * buff1[k]
        ELSE (0 - buff1[k - P.m + P.n]) - P.b * buff1[k]]

\* f64::round of x / p: to the nearest integer, halves away from zero
round(x, p) ==
    IF x >= 0 THEN (2 * x + p) \div (2 * p) ELSE 0 - ((2 * (0 - x) + p) \div (2 * p))

\* `if c < 0 { (c + q) as u64 } else { c as u64 }`
to_coeff(c, q) == IF c < 0 THEN (c + q) % LaneMod ELSE c % LaneMod

encode_randomized_assign(P, v, z, poly) ==
    LET c == encode_slots(P, v, 0, Cleared(P))
        buff1 == project(P, c.coeffs, 1, 0 - 1, Zeros(P.n))
        star  == [i \in DOMAIN buff1 |-> sample_coset(buff1[i], P.p * z[i])]
        buff0 == unproject(P, star)
        rnd   == [i \in DOMAIN buff0 |-> round(buff0[i], P.p)]
    IN  IF c.ok
        THEN [pout |-> ntt(P, [coeffs |-> [i \in DOMAIN rnd |-> to_coeff(rnd[i], P.q)],
                               is_ntt |-> FALSE]),
              err |-> "none", spill |-> c.spill, rounded |-> rnd]
        ELSE [pout |-> [coeffs |-> Zeros(P.n), is_ntt |-> poly.is_ntt],
              err |-> "index out of bounds", spill |-> c.spill, rounded |-> Zeros(0)]

rem_trunc(x, p) == IF x >= 0 THEN x % p ELSE 0 - ((0 - x) % p)

\* rem_euc_assign: the remainder in [0,p), of a negative number too
rem_euc(x, p) == x % p

RECURSIVE horner(_, _, _, _, _)
\* the loop `for j in (0..kap).rev()`
horner(P, bal, i, j, tmp) ==
    IF j < 0 THEN tmp
    ELSE horner(P, bal, i, j - 1, tmp * P.b + bal[i + j * P.m])

decode_assign(P, poly, out) ==
    LET bal == to_balanced(P, poly)
    IN  [i \in DOMAIN out |->
            IF i < P.m THEN rem_euc(horner(P, bal, i, P.kap - 1, 0), P.p) ELSE out[i]]

length_mismatch_short(len, k, m) == len > k * m

\* `v.len() != pout.len() * m`
length_mismatch(len, k, m) == len # k * m

\* `&v[lo..hi]`
Slice(v, lo, hi) == [k \in 0..(hi - lo - 1) |-> v[lo + k]]

RECURSIVE encode_chunk_from(_, _, _, _, _)
\* the loop `for (i, p) in pout.iter_mut().enumerate()`; zs is << >> for the
\* deterministic encode and holds the sampler's offsets, chunk after chunk,
\* for the randomized one
encode_chunk_from(P, v, i, polys, zs) ==
    IF i >= Len(polys) THEN [pout |-> polys, err |-> "none"]
    ELSE IF (i + 1) * P.m > Cardinality(DOMAIN v)
    THEN [pout |-> polys, err |-> "slice index out of range"]
    ELSE LET part == Slice(v, i * P.m, (i + 1) * P.m)
             r == IF zs = << >>
                  THEN encode_assign(P, part, polys[i + 1])
                  ELSE encode_randomized_assign(P, part, zs[i + 1], polys[i + 1])
             done == [polys EXCEPT ![i + 1] = r.pout]
         IN  IF r.err = "none" THEN encode_chunk_from(P, v, i + 1, done, zs)
             ELSE [pout |-> done, err |-> r.err]

encode_chunk_assign(P, v, polys) ==
    IF length_mismatch(Cardinality(DOMAIN v), Len(polys), P.m)
    THEN [pout |-> polys, err |-> "invalid length"]
    ELSE encode_chunk_from(P, v, 0, polys, << >>)

encode_randomized_chunk_assign(P, v, zs, polys) ==
    IF length_mismatch(Cardinality(DOMAIN v), Len(polys), P.m)
    THEN [pout |-> polys, err |-> "invalid length"]
    ELSE encode_chunk_from(P, v, 0, polys, zs)

RECURSIVE decode_chunk_from(_, _, _, _)
\* the loop `for (i, p) in p.iter().enumerate()`
decode_chunk_from(P, polys, i, out) ==
    IF i >= Len(polys) THEN [vout |-> out, err |-> "none"]
    ELSE IF (i + 1) * P.m > Cardinality(DOMAIN out)
    THEN [vout |-> out, err |-> "slice index out of range"]
    ELSE LET part == decode_assign(P, polys[i + 1], Slice(out, i * P.m, (i + 1) * P.m))
         IN  decode_chunk_from(P, polys, i + 1,
                 [k \in DOMAIN out |->
                     IF k >= i * P.m /\ k < (i + 1) * P.m THEN part[k - i * P.m]
                     ELSE out[k]])

decode_chunk_assign(P, polys, out) ==
    IF length_mismatch(Cardinality(DOMAIN out), Len(polys), P.m)
    THEN [vout |-> out, err |-> "invalid length"]
    ELSE decode_chunk_from(P, polys, 0, out)

RECURSIVE Pow(_, _)
Pow(b, k) == IF k = 0 THEN 1 ELSE b * Pow(b, k - 1)

\* digit j of the base-b expansion of a that encode stores, the top one whole
Digit(P, a, j) ==
    IF j < P.kap - 1 THEN (a \div Pow(P.b, j)) % P.b ELSE a \div Pow(P.b, P.kap - 1)

\* Parameters with n = kap * m for which encode produces a ring element:
\* every digit it can store is a coefficient in [0,q)
Params ==
    {P \in {[n |-> kap * m, m |-> m, kap |-> kap, b |-> b, p |-> p, q |-> q] :
                m \in 1..MaxM, kap \in 1..MaxKap, b \in 1..MaxB, p \in 1..MaxP,
                q \in 1..MaxRingQ} :
        \A a \in 0..(P.p - 1) : \A j \in 0..(P.kap - 1) : Digit(P, a, j) < P.q}

Offsets == (0 - MaxOff)..MaxOff

IdleEncoder ==
    /\ params = [n |-> 0, m |-> 0, kap |-> 0, b |-> 0, p |-> 0, q |-> 0]
    /\ msg = << >>
    /\ pout = << >>
    /\ dvout = << >>
    /\ err = "none"
    /\ pc = "idle"
    /\ spill = {}
    /\ rounded = << >>

IdleMatrix ==
    /\ mat = new(0, 0)
    /\ ctor = "new"
    /\ vout = << >>
    /\ log = << >>
    /\ panicked = FALSE
    /\ wrapped = FALSE

-----------------------------------------------------------------------------
(* The matrices the fields of SparseMatrix can hold: well-formed CSR data, *)
(* as the multiply operations require of their caller.                     *)

RowPtrs(n, k) ==
    {f \in [0..n -> 0..k] :
        /\ f[0] = 0
        /\ f[n] = k
        /\ \A i \in 0..(n - 1) : f[i] <= f[i + 1]}

Populated(n, q) ==
    UNION {
        {[n |-> n, q |-> q, row_ptr |-> rp, col_idx |-> ci, values |-> vs] :
            rp \in RowPtrs(n, k), ci \in Vec(k, 0..(n - 1)), vs \in Vec(k, 0..MaxVal)}
        : k \in 1..MaxNnz}

Dims == 1..MaxN

Moduli == 1..MaxQ

InitMatrix ==
    /\ \E n \in Dims, q \in Moduli :
          \/ mat = new(n, q) /\ ctor = "new"
          \/ mat = new_identity(n, q) /\ ctor = "new_identity"
          \/ mat \in Populated(n, q) /\ ctor = "fields"
    /\ log = << >>
    /\ panicked = FALSE
    /\ wrapped = FALSE
    /\ IdleEncoder

-----------------------------------------------------------------------------
(* Spec: a caller that owns one output buffer, whose entries start in      *)
(* [0,q), and applies the in-place multiply operations to it, one call     *)
(* after another, until a call panics.                                     *)

Inputs == Vec(mat.n, 0..(mat.q - 1))

Init ==
    /\ InitMatrix
    /\ vout \in Inputs

\* what a call leaves behind: the buffer as the call left it, whether the
\* call panicked, whether a subtraction took the `+ q` branch
Step(r, rec) ==
    /\ ~panicked
    /\ vout' = r.vout
    /\ panicked' = ~r.ok
    /\ wrapped' = r.wrapped
    /\ log' = rec
    /\ UNCHANGED <<mat, ctor, evars>>

MulVecAssign ==
    \E v \in Inputs : Step(mul_vec_assign(mat, v, vout), log)

MulVecAddAssign ==
    \E v \in Inputs : Step(mul_vec_add_assign(mat, v, vout), log)

MulVecSubAssign ==
    \E v \in Inputs : Step(mul_vec_sub_assign(mat, v, vout), log)

TransposeMulVecAssign ==
    \E v \in Inputs : Step(transpose_mul_vec_assign(mat, v, vout), log)

TransposeMulVecAddAssign ==
    \E v \in Inputs : Step(transpose_mul_vec_add_assign(mat, v, vout), log)

TransposeMulVecSubAssign ==
    \E v \in Inputs : Step(transpose_mul_vec_sub_assign(mat, v, vout), log)

Next ==
    \/ MulVecAssign
    \/ MulVecAddAssign
    \/ MulVecSubAssign
    \/ TransposeMulVecAssign
    \/ TransposeMulVecAddAssign
    \/ TransposeMulVecSubAssign

Spec == Init /\ [][Next]_vars

\* C9: every entry of the buffer is in [0,q) in every state the calls reach,
\* the states a panicking call leaves behind included.
RangeInvariant == InRange(vout, mat.q)

\* a subtraction whose subtrahend exceeded the minuend has returned
RangeWitness == wrapped /\ ~panicked /\ \E i \in DOMAIN vout : vout[i] > 0

-----------------------------------------------------------------------------
(* The exact sums the multiply family is meant to compute, over the        *)
(* unbounded integers.                                                     *)

RECURSIVE SumOver(_, _, _)
\* f[lo] + ... + f[hi-1]
SumOver(f, lo, hi) == IF lo >= hi THEN 0 ELSE f[lo] + SumOver(f, lo + 1, hi)

Nnz(M) == M.row_ptr[M.n]

\* the row of the stored entry j
RowOf(M, j) == CHOOSE i \in 0..(M.n - 1) : M.row_ptr[i] <= j /\ j < M.row_ptr[i + 1]

\* (M v)[i]: the sum of values[j] * v[col_idx[j]] over the entries of row i
RowSum(M, v, i) ==
    SumOver([j \in 0..(Nnz(M) - 1) |-> M.values[j] * v[M.col_idx[j]]],
            M.row_ptr[i], M.row_ptr[i + 1])

\* (M^T v)[c]: the sum of values[j] * v[row of j] over the entries of column c
ColSum(M, v, c) ==
    SumOver([j \in 0..(Nnz(M) - 1) |->
                IF M.col_idx[j] = c THEN M.values[j] * v[RowOf(M, j)] ELSE 0],
            0, Nnz(M))

Dot(a, b) == SumOver([i \in DOMAIN a |-> a[i] * b[i]], 0, Cardinality(DOMAIN a))

Ops == {"mul_vec_assign", "mul_vec_add_assign", "mul_vec_sub_assign",
        "transpose_mul_vec_assign", "transpose_mul_vec_add_assign",
        "transpose_mul_vec_sub_assign"}

\* the value entry i of the buffer must hold after op, from the buffer pre
Expected(op, M, v, pre, i) ==
    CASE op = "mul_vec_assign" -> RowSum(M, v, i) % M.q
      [] op = "mul_vec_add_assign" -> (pre[i] + RowSum(M, v, i)) % M.q
      [] op = "mul_vec_sub_assign" -> (pre[i] - RowSum(M, v, i)) % M.q
      [] op = "transpose_mul_vec_assign" -> ColSum(M, v, i) % M.q
      [] op = "transpose_mul_vec_add_assign" -> (pre[i] + ColSum(M, v, i)) % M.q
      [] op = "transpose_mul_vec_sub_assign" -> (pre[i] - ColSum(M, v, i)) % M.q

-----------------------------------------------------------------------------
(* SpecCall: one call of one of the six operations on a buffer of residues, *)
(* with the call's input and the buffer before it kept for comparison.      *)

Apply(op, M, v, out) ==
    CASE op = "mul_vec_assign" -> mul_vec_assign(M, v, out)
      [] op = "mul_vec_add_assign" -> mul_vec_add_assign(M, v, out)
      [] op = "mul_vec_sub_assign" -> mul_vec_sub_assign(M, v, out)
      [] op = "transpose_mul_vec_assign" -> transpose_mul_vec_assign(M, v, out)
      [] op = "transpose_mul_vec_add_assign" -> transpose_mul_vec_add_assign(M, v, out)
      [] op = "transpose_mul_vec_sub_assign" -> transpose_mul_vec_sub_assign(M, v, out)

Rec(op, v, pre, r) == [op |-> op, v |-> v, pre |-> pre, out |-> r.vout, ok |-> r.ok]

CallOnce ==
    /\ log = << >>
    /\ \E op \in Ops, v \in Inputs :
          LET r == Apply(op, mat, v, vout)
          IN  Step(r, << Rec(op, v, vout, r) >>)

SpecCall == Init /\ [][CallOnce]_vars

\* C8: with the stored values, the input and the buffer all in [0,q), the
\* call returns and every entry of the buffer is the exact sum of products
\* reduced mod q.
WideProducts ==
    (Len(log) = 1 /\ InRange(mat.values, mat.q))
        => /\ log[1].ok
           /\ \A i \in 0..(mat.n - 1) :
                 vout[i] = Expected(log[1].op, mat, log[1].v, log[1].pre, i)

-----------------------------------------------------------------------------
(* SpecAddSub: mul_vec_add_assign(v, vout), then mul_vec_sub_assign(v, vout) *)
(* with the same v, on a buffer of residues.                                 *)

Add ==
    /\ log = << >>
    /\ \E v \in Inputs :
          LET r == mul_vec_add_assign(mat, v, vout)
          IN  Step(r, << Rec("mul_vec_add_assign", v, vout, r) >>)

Sub ==
    /\ Len(log) = 1
    /\ LET v == log[1].v
           r == mul_vec_sub_assign(mat, v, vout)
       IN  Step(r, Append(log, Rec("mul_vec_sub_assign", v, vout, r)))

SpecAddSub == Init /\ [][Add \/ Sub]_vars

\* C3: once the subtract has been called after the add, it has returned and
\* every entry of the buffer has the value it had before the add.
AddSubInverse ==
    Len(log) = 2 => (log[2].ok /\ vout = log[1].pre)

-----------------------------------------------------------------------------
(* SpecMul: the operations that return a fresh value: mul_vec(v), then     *)
(* transpose_mul_vec(u) or to_dense() on the same matrix.                  *)

InitMul ==
    /\ InitMatrix
    /\ vout = Zeros(0)

Returned(rec) ==
    /\ ~panicked
    /\ log' = Append(log, rec)
    /\ panicked' = ~rec.ok
    /\ UNCHANGED <<mat, ctor, vout, wrapped, evars>>

MulVec ==
    /\ log = << >>
    /\ \E v \in Inputs : Returned(Rec("mul_vec", v, Zeros(mat.n), mul_vec(mat, v)))

TransposeMulVec ==
    /\ Len(log) = 1
    /\ \E u \in Inputs :
          Returned(Rec("transpose_mul_vec", u, Zeros(mat.n), transpose_mul_vec(mat, u)))

ToDense ==
    /\ Len(log) = 1
    /\ Returned([op |-> "to_dense", v |-> Zeros(0), pre |-> Zeros(0),
                 out |-> to_dense(mat), ok |-> TRUE])

SpecMul == InitMul /\ [][MulVec \/ TransposeMulVec \/ ToDense]_vars

\* C4: mul_vec(v) and transpose_mul_vec(u) return, and
\* dot(mul_vec(v), u) is congruent to dot(v, transpose_mul_vec(u)) mod q.
TransposeDuality ==
    /\ log # << >> => ~panicked
    /\ (Len(log) = 2 /\ log[2].op = "transpose_mul_vec")
          => Dot(log[1].out, log[2].v) % mat.q = Dot(log[1].v, log[2].out) % mat.q

\* C10: mul_vec(v)[i] is the sum over c of to_dense()[i][c] * v[c] mod q.
DenseSparseAgree ==
    (Len(log) = 2 /\ log[2].op = "to_dense")
        => \A i \in 0..(mat.n - 1) :
              log[1].out[i] = Dot(log[2].out[i], log[1].v) % mat.q

-----------------------------------------------------------------------------
(* SpecIdentity: mul_vec and transpose_mul_vec of new_identity(n, q), on   *)
(* any vector the working integer can hold.                                *)

InitIdentity ==
    /\ \E n \in Dims, q \in Moduli : mat = new_identity(n, q)
    /\ ctor = "new_identity"
    /\ vout = Zeros(0)
    /\ log = << >>
    /\ panicked = FALSE
    /\ wrapped = FALSE
    /\ IdleEncoder

Answer(rec) ==
    /\ log' = << rec >>
    /\ panicked' = ~rec.ok
    /\ UNCHANGED <<mat, ctor, vout, wrapped, evars>>

IdentityMulVec ==
    \E v \in Vec(mat.n, 0..UMax) :
        Answer(Rec("mul_vec", v, Zeros(mat.n), mul_vec(mat, v)))

IdentityTransposeMulVec ==
    \E v \in Vec(mat.n, 0..UMax) :
        Answer(Rec("transpose_mul_vec", v, Zeros(mat.n), transpose_mul_vec(mat, v)))

SpecIdentity == InitIdentity /\ [][IdentityMulVec \/ IdentityTransposeMulVec]_vars

\* C5: on the identity matrix mul_vec(v) and transpose_mul_vec(v) return,
\* and entry i of the result is v[i] mod q.
MatrixIdentity ==
    log # << >> =>
        /\ log[1].ok
        /\ \A i \in 0..(mat.n - 1) : log[1].out[i] = log[1].v[i] % mat.q

\* transpose_mul_vec has answered for a vector with an entry of q or more
MatrixIdentityWitness ==
    /\ log # << >>
    /\ log[1].op = "transpose_mul_vec"
    /\ mat.n = MaxN
    /\ \E i \in 0..(mat.n - 1) : log[1].v[i] >= mat.q /\ log[1].out[i] # 0

-----------------------------------------------------------------------------
(* SpecEncode: encode of a message vector of any length up to m + 1 into a *)
(* fresh ring element, then decode of the element.                         *)

Msgs(P, lens) == UNION {Vec(len, 0..(P.p - 1)) : len \in lens}

InitEncoder(lens) ==
    /\ IdleMatrix
    /\ params \in Params
    /\ msg \in Msgs(params, lens)
    /\ pout = << new_poly(params) >>
    /\ dvout = Zeros(params.m)
    /\ err = "none"
    /\ pc = "new"
    /\ spill = {}
    /\ rounded = << >>

Encoded(r, name) ==
    /\ pout' = << r.pout >>
    /\ err' = r.err
    /\ spill' = r.spill
    /\ rounded' = r.rounded
    /\ pc' = name
    /\ UNCHANGED <<params, msg, dvout, mvars>>

Encode ==
    /\ pc = "new"
    /\ Encoded(encode_assign(params, msg, pout[1]), "encode")

EncodeRandomized ==
    /\ pc = "new"
    /\ \E z \in Vec(params.n, Offsets) :
          Encoded(encode_randomized_assign(params, msg, z, pout[1]), "encode_randomized")

Decode ==
    /\ pc \in {"encode", "encode_randomized"}
    /\ err = "none"
    /\ dvout' = decode_assign(params, pout[1], dvout)
    /\ pc' = "decode"
    /\ UNCHANGED <<params, msg, pout, err, spill, rounded, mvars>>

SpecEncode == InitEncoder({params.m - 1, params.m, params.m + 1}) /\ [][Encode \/ Decode]_vars

SpecRandomized == InitEncoder({params.m}) /\ [][EncodeRandomized \/ Decode]_vars

MsgLen == Cardinality(DOMAIN msg)

\* C1 as stated: for n = kap * m and v of length m with entries in [0,p),
\* decode(encode(v)) is v.
RoundTrip == (pc = "decode" /\ MsgLen = params.m) => dvout = msg

DigitsBalanced ==
    \A i \in DOMAIN msg : \A j \in 0..(params.kap - 1) :
        2 * Digit(params, msg[i], j) <= params.q

\* C1 as amended: for n = kap * m and v of length m with entries in [0,p)
\* such that every base-b digit encode stores for v (the top digit
\* uncapped) is at most q/2, decode(encode(v)) is v.
RoundTripBalanced ==
    (pc = "decode" /\ MsgLen = params.m /\ DigitsBalanced) => dvout = msg

\* a vector whose top digit is b (a = b^kap = p - 1) has made the round trip
RoundTripWitness ==
    /\ pc = "decode"
    /\ MsgLen = params.m
    /\ DigitsBalanced
    /\ params.kap = MaxKap
    /\ params.m = MaxM
    /\ params.p = Pow(params.b, params.kap) + 1
    /\ msg[0] = params.p - 1
    /\ msg[1] = params.b + 1
    /\ dvout = msg

\* C7: encode of a vector longer than m raises an error (the index panic
\* counted as one) and has written no digit of a slot i >= m into the ring
\* element.
OversizeRejected ==
    (pc = "encode" /\ MsgLen > params.m) => (err # "none" /\ spill = {})

\* C2: for p = b^kap + 1 and every sampler outcome that keeps each
\* coefficient in (-q/2, q/2], decode(encode_randomized(v, sigma)) is v.
CoeffsBalanced ==
    \A i \in DOMAIN rounded : 0 - params.q < 2 * rounded[i] /\ 2 * rounded[i] <= params.q

-----------------------------------------------------------------------------
(* SpecChunk: the chunked operations on a message-vector buffer of any     *)
(* length up to MaxBuf and a slice of up to MaxChunks ring elements.  The  *)
(* decode buffer starts filled with p, which no decode writes.             *)

Fresh(k) == [i \in 1..k |-> new_poly(params)]

Unwritten == [i \in DOMAIN msg |-> params.p]

InitChunk ==
    /\ IdleMatrix
    /\ params \in {P \in Params : P.q = MaxRingQ}
    /\ msg \in Msgs(params, 0..MaxBuf)
    /\ \E k \in 0..MaxChunks : pout = Fresh(k)
    /\ dvout = Unwritten
    /\ err = "none"
    /\ pc = "new"
    /\ spill = {}
    /\ rounded = << >>

Chunked(r, name) ==
    /\ pout' = r.pout
    /\ err' = r.err
    /\ pc' = name
    /\ UNCHANGED <<params, msg, dvout, spill, rounded, mvars>>

EncodeChunk ==
    /\ pc = "new"
    /\ Chunked(encode_chunk_assign(params, msg, pout), "encode_chunk_assign")

\* the sampler is asked for nothing when the length check fails
Noise ==
    IF length_mismatch(MsgLen, Len(pout), params.m) THEN {<< >>}
    ELSE [1..Len(pout) -> Vec(params.n, Offsets)]

EncodeRandomizedChunk ==
    /\ pc = "new"
    /\ \E zs \in Noise :
          Chunked(encode_randomized_chunk_assign(params, msg, zs, pout),
                  "encode_randomized_chunk_assign")

DecodeChunk ==
    /\ pc \in {"new", "encode_chunk_assign", "encode_randomized_chunk_assign"}
    /\ err = "none"
    /\ LET r == decode_chunk_assign(params, pout, dvout)
       IN  /\ dvout' = r.vout
           /\ err' = r.err
    /\ pc' = "decode_chunk_assign"
    /\ UNCHANGED <<params, msg, pout, spill, rounded, mvars>>

SpecChunk == InitChunk /\ [][EncodeChunk \/ EncodeRandomizedChunk \/ DecodeChunk]_vars

\* C6: a chunked operation on a buffer whose length is no multiple of m has
\* failed with the length error, and no ring element and no entry of the
\* decode buffer has been written.
ChunkLengthCheck ==
    (pc # "new" /\ MsgLen % params.m # 0)
        => /\ err = "invalid length"
           /\ pout = Fresh(Len(pout))
           /\ dvout = Unwritten

\* the decode of a buffer of 3 entries into two elements of m = 2 slots has
\* failed
ChunkLengthWitness ==
    /\ pc = "decode_chunk_assign"
    /\ MsgLen % params.m # 0
    /\ MsgLen < Len(pout) * params.m
    /\ MsgLen > params.m
    /\ err = "invalid length"

====
